---- MODULE Spec2Model ----
(***************************************************************************)
(* A model of src/Nova.py: a single-node proof-of-work ledger.             *)
(*                                                                         *)
(* Strings are sequences of one-character strings, so that the f-string    *)
(* concatenation of calculate_hash is real concatenation.  Python list     *)
(* objects live in `heap` and are referred to by their position in it,     *)
(* because Block.transactions is the very list object the ledger holds as  *)
(* pending_transactions until line 77 rebinds the latter to a new list.    *)
(* mine_pending_transactions runs statement by statement under `pc`; no    *)
(* other operation starts before it has returned or raised, except in the  *)
(* section on two threads, where each thread has its position in `calls`.  *)
(***************************************************************************)
EXTENDS Integers, Sequences, FiniteSets, TLC

----------------------------------------------------------------------------
(* Bounds of the model *)

\* largest number of blocks in the chain, the genesis block included
MaxChain == 3
\* largest number of create_transaction calls in a run
MaxSubmitted == 2
\* largest number of outside writes to the fields of blocks in a run
MaxTampers == 1
\* the nonce search is cut off at this nonce
MaxNonce == 40
\* difficulties a Blockchain is constructed with: 0..MaxDifficulty
MaxDifficulty == 1
\* number of hex characters of a digest (64 for SHA-256)
HashLen == 2

\* calls that two threads start between them
MaxCalls == 3

\* rounds after which the usage loop is said to stop (100 in line 138)
UsageRounds == 1

----------------------------------------------------------------------------
(* Strings *)

HexChars == <<"0", "1", "2", "3", "4", "5", "6", "7", "8", "9", "a", "b", "c", "d", "e", "f">>

\* ord(c) for the characters that occur in the model
OrdTable ==
    "-" :> 45 @@ ":" :> 58 @@ ">" :> 62 @@
    "0" :> 48 @@ "1" :> 49 @@ "2" :> 50 @@ "3" :> 51 @@ "4" :> 52 @@
    "5" :> 53 @@ "6" :> 54 @@ "7" :> 55 @@ "8" :> 56 @@ "9" :> 57 @@
    "A" :> 65 @@ "B" :> 66 @@ "M" :> 77 @@ "R" :> 82 @@ "S" :> 83 @@
    "a" :> 97 @@ "b" :> 98 @@ "c" :> 99 @@ "d" :> 100 @@ "e" :> 101 @@
    "f" :> 102 @@ "i" :> 105 @@ "m" :> 109 @@ "n" :> 110 @@ "p" :> 112 @@
    "r" :> 114 @@ "s" :> 115 @@ "t" :> 116 @@ "y" :> 121

Ord(c) == OrdTable[c]

RECURSIVE NatStr(_)
\* str(n) of a non-negative int: its decimal digits
NatStr(n) ==
    IF n < 10 THEN <<HexChars[n + 1]>>
    ELSE NatStr(n \div 10) \o <<HexChars[(n % 10) + 1]>>

\* str(n) of an int, as an f-string formats it
IntStr(n) == IF n < 0 THEN <<"-">> \o NatStr(0 - n) ELSE NatStr(n)

\* '0' * difficulty
Zeros(d) == [i \in 1..d |-> "0"]

\* s.startswith(prefix)
StartsWith(s, prefix) ==
    /\ Len(s) >= Len(prefix)
    /\ SubSeq(s, 1, Len(prefix)) = prefix

----------------------------------------------------------------------------
(* Transaction *)

System == <<"S", "y", "s", "t", "e", "m">>
AddrA == <<"A">>
AddrB == <<"B">>

Transaction(sender, recipient, amount) ==
    [sender |-> sender, recipient |-> recipient, amount |-> amount]

\* the transactions a caller submits
Txs == {Transaction(AddrA, AddrB, 10), Transaction(System, AddrA, -5)}

\* the addresses a caller mines for
RewardAddresses == {AddrA, System}

\* str(datetime.now()) at the k-th reading of the clock; a block is constructed
\* with one reading, the genesis block with reading 0
Now(k) == <<"9", ":">> \o NatStr(k)

----------------------------------------------------------------------------
(* Block *)

\* f'{t.sender}->{t.recipient}:{t.amount}'
TxStr(t) == t.sender \o <<"-", ">">> \o t.recipient \o <<":">> \o IntStr(t.amount)

RECURSIVE JoinTxs(_)
\* ''.join([... for t in self.transactions])
JoinTxs(txs) == IF txs = <<>> THEN <<>> ELSE TxStr(Head(txs)) \o JoinTxs(Tail(txs))

\* f'{self.index}{self.previous_hash}{self.timestamp}{transactions_str}{self.nonce}'
Serialize(index, previous_hash, timestamp, txs, nonce) ==
    IntStr(index) \o previous_hash \o timestamp \o JoinTxs(txs) \o IntStr(nonce)

\* h -> r.mul * (l.mul * h + l.add) + r.add, modulo 16^HashLen
Compose(l, r) ==
    [mul |-> (l.mul * r.mul) % (16 ^ HashLen),
     add |-> (r.mul * l.add + r.add) % (16 ^ HashLen)]

RECURSIVE Absorb(_, _, _)
\* absorbing the characters s[lo..hi] in turn, each by
\* h := (h * 31 + ord(c) + 7) mod 16^HashLen, takes h to mul * h + add;
\* the range is evaluated by halves, each half once
Absorb(s, lo, hi) ==
    IF lo > hi THEN [mul |-> 1, add |-> 0]
    ELSE IF lo = hi THEN [mul |-> 31 % (16 ^ HashLen), add |-> (Ord(s[lo]) + 7) % (16 ^ HashLen)]
    ELSE CHOOSE a \in {Compose(l, r) : l \in {Absorb(s, lo, (lo + hi) \div 2)},
                                        r \in {Absorb(s, ((lo + hi) \div 2) + 1, hi)}} : TRUE

\* a.mul * h + a.add, modulo 16^HashLen
Apply(a, h) == (a.mul * h + a.add) % (16 ^ HashLen)

\* the stand-in for SHA-256: a polynomial hash of the characters of s from the
\* initial value h, HashLen hex characters wide
Compress(s, h) == Apply(Absorb(s, 1, Len(s)), h)

RECURSIVE HexStr(_, _)
\* the fixed-length lower-case hex rendering of v, `len` characters
HexStr(v, len) ==
    IF len = 0 THEN <<>>
    ELSE HexStr(v \div 16, len - 1) \o <<HexChars[(v % 16) + 1]>>

\* the last round of the stand-in: a multiplication by an odd number, which
\* carries a change of any character into the leading hex characters
Finalize(h) == (h * 40503) % (16 ^ HashLen)

\* hashlib.sha256(value).hexdigest(), value and the state after the last round
\* being evaluated once
Sha256Hex(value) ==
    CHOOSE d \in {HexStr(v, HashLen) : v \in {Finalize(Compress(s, 5)) : s \in {value}}} : TRUE

\* Block.calculate_hash, of block b whose transaction list holds txs
calculate_hash(b, txs) ==
    Sha256Hex(Serialize(b.index, b.previous_hash, b.timestamp, txs, b.nonce))

\* a falsy hash argument (None or ''): Block.__init__ computes the hash
NoHash == <<>>

\* Block.__init__; `transactions` is a reference into the heap, txs its content
Block(index, timestamp, transactions, txs, previous_hash, nonce, hash) ==
    LET b == [index |-> index, timestamp |-> timestamp,
              transactions |-> transactions, previous_hash |-> previous_hash,
              nonce |-> nonce, hash |-> hash]
    IN  IF hash = NoHash THEN [b EXCEPT !.hash = calculate_hash(b, txs)] ELSE b

\* Block.to_dict
to_dict(b, txs) ==
    [index |-> b.index, timestamp |-> b.timestamp,
     previous_hash |-> b.previous_hash, hash |-> b.hash,
     transactions |-> txs, nonce |-> b.nonce]

----------------------------------------------------------------------------
(* Blockchain *)

VARIABLES
    chain,                  \* self.chain: the sequence of Block objects
    heap,                   \* the list objects: heap[r] is the content of list r
    pending,                \* self.pending_transactions: a reference into heap
    difficulty,             \* self.difficulty
    new_block,              \* the local new_block of mine_pending_transactions
    mining_reward_address,  \* the argument of the running or last mining call
    pc,                     \* the statement mine_pending_transactions is at
    outcome,                \* how the last mining call ended
    sink,                   \* the calls of save_block_to_file, failed or not, in order
    submitted,              \* the arguments of create_transaction, in order
    tampers,                \* number of outside writes to a block so far
    probe,                  \* inputs and outputs of a function under test
    lock,                   \* the lock of the callers: whether they use one, and
                            \* the thread that holds it, 0 when it is free
    calls                   \* per thread: the statement its call is at, its locals

vars == <<chain, heap, pending, difficulty, new_block, mining_reward_address,
          pc, outcome, sink, submitted, tampers, probe, lock, calls>>

\* self.mining_reward
mining_reward == 100

\* no mining call has bound new_block yet
NoBlock ==
    [index |-> -1, timestamp |-> <<>>, transactions |-> 0,
     previous_hash |-> <<>>, nonce |-> 0, hash |-> <<>>]

NoProbe == [kind |-> "none"]

\* a genesis block constructed with index 1
create_genesis_block_one == Block(1, Now(0), 1, <<>>, <<"0">>, 0, NoHash)

\* Blockchain.create_genesis_block; its list [] is heap[1]
create_genesis_block == Block(0, Now(0), 1, <<>>, <<"0">>, 0, NoHash)

\* a get_latest_block that returns the first block
get_latest_block_first(c) == c[1]

\* Blockchain.get_latest_block
get_latest_block(c) == c[Len(c)]

\* Blockchain.__init__ with the given difficulty
LedgerInit(d) ==
    /\ heap = << <<>>, <<>> >>
    /\ chain = <<create_genesis_block>>
    /\ difficulty = d
    /\ pending = 2
    /\ new_block = NoBlock
    /\ mining_reward_address = <<>>
    /\ pc = "idle"
    /\ outcome = "none"
    /\ sink = <<>>
    /\ submitted = <<>>
    /\ tampers = 0

\* one caller, in one thread: no lock, and the call's position and locals are
\* pc, new_block and mining_reward_address
OneCaller ==
    /\ lock = [used |-> FALSE, holder |-> 0]
    /\ calls = <<>>

Init ==
    /\ \E d \in 0..MaxDifficulty : LedgerInit(d)
    /\ probe = NoProbe
    /\ OneCaller

\* Blockchain.create_transaction
create_transaction(tx) ==
    /\ pc = "idle"
    /\ Len(submitted) < MaxSubmitted
    /\ heap' = [heap EXCEPT ![pending] = Append(@, tx)]
    /\ submitted' = Append(submitted, tx)
    /\ UNCHANGED <<chain, pending, difficulty, new_block, mining_reward_address,
                   pc, outcome, sink, tampers, probe, lock, calls>>

\* the reward transaction of line 70
reward_tx(address) == Transaction(System, address, mining_reward)

\* the Block of line 73: it shares the pending list object
candidate_block(c, ref, txs) ==
    Block(Len(c), Now(Len(c)), ref, txs, get_latest_block(c).hash, 0, NoHash)

\* mine_pending_transactions, lines 70-73: the reward is appended to the
\* pending list and the candidate block is constructed over that list
MineBegin(address) ==
    /\ pc = "idle"
    /\ Len(chain) < MaxChain
    /\ heap' = [heap EXCEPT ![pending] = Append(@, reward_tx(address))]
    /\ new_block' = candidate_block(chain, pending, heap'[pending])
    /\ mining_reward_address' = address
    /\ outcome' = "none"
    /\ pc' = "mine"
    /\ UNCHANGED <<chain, pending, difficulty, sink, submitted, tampers, probe, lock, calls>>

\* a loop condition that is false at once: no search
mine_done_at_once(b, d) == TRUE

\* the loop condition of Block.mine_block negated: the search is over
mine_done(b, d) == StartsWith(b.hash, Zeros(d))

\* a loop body that recomputes the hash and leaves the nonce as it is
mine_step_same_nonce(b, txs) == [b EXCEPT !.hash = calculate_hash(b, txs)]

\* a loop body that adds 2 to the nonce
mine_step_by_two(b, txs) ==
    LET n == [b EXCEPT !.nonce = b.nonce + 2]
    IN  [n EXCEPT !.hash = calculate_hash(n, txs)]

\* the loop body of Block.mine_block
mine_step(b, txs) ==
    LET n == [b EXCEPT !.nonce = b.nonce + 1]
    IN  [n EXCEPT !.hash = calculate_hash(n, txs)]

\* Block.mine_block, one iteration of the while loop
MineIter ==
    /\ pc = "mine"
    /\ ~mine_done(new_block, difficulty)
    /\ new_block.nonce < MaxNonce
    /\ new_block' = mine_step(new_block, heap[new_block.transactions])
    /\ UNCHANGED <<chain, heap, pending, difficulty, mining_reward_address,
                   pc, outcome, sink, submitted, tampers, probe,
                   lock, calls>>

\* Block.mine_block returns
MineReturn ==
    /\ pc = "mine"
    /\ mine_done(new_block, difficulty)
    /\ pc' = "mined"
    /\ UNCHANGED <<chain, heap, pending, difficulty, new_block,
                   mining_reward_address, outcome, sink, submitted, tampers, probe,
                   lock, calls>>

\* mine_pending_transactions, line 76
MineAppend ==
    /\ pc = "mined"
    /\ chain' = Append(chain, new_block)
    /\ pc' = "clear"
    /\ UNCHANGED <<heap, pending, difficulty, new_block, mining_reward_address,
                   outcome, sink, submitted, tampers, probe, lock, calls>>

\* a line 77 that leaves pending_transactions as it is
MineClear_keep ==
    /\ pc = "clear"
    /\ pc' = "save"
    /\ UNCHANGED <<chain, heap, pending, difficulty, new_block, mining_reward_address,
                   outcome, sink, submitted, tampers, probe, lock, calls>>

\* a line 77 that empties the list in place (pending_transactions.clear())
MineClear_inplace ==
    /\ pc = "clear"
    /\ heap' = [heap EXCEPT ![pending] = <<>>]
    /\ pc' = "save"
    /\ UNCHANGED <<chain, pending, difficulty, new_block, mining_reward_address,
                   outcome, sink, submitted, tampers, probe, lock, calls>>

\* mine_pending_transactions, line 77: pending_transactions is bound to a new list
MineClear ==
    /\ pc = "clear"
    /\ heap' = Append(heap, <<>>)
    /\ pending' = Len(heap) + 1
    /\ pc' = "save"
    /\ UNCHANGED <<chain, difficulty, new_block, mining_reward_address,
                   outcome, sink, submitted, tampers, probe, lock, calls>>

\* what save_block_to_file is called with: the block, as the record it writes
save_block_to_file(b, txs) == [record |-> to_dict(b, txs)]

\* a mine_pending_transactions that returns without calling save_block_to_file
MineSaveOk_skip ==
    /\ pc = "save"
    /\ outcome' = "ok"
    /\ pc' = "idle"
    /\ UNCHANGED <<chain, heap, pending, difficulty, new_block, sink,
                   mining_reward_address, submitted, tampers, probe,
                   lock, calls>>

\* mine_pending_transactions, lines 79-80: the block is logged and written
MineSaveOk ==
    /\ pc = "save"
    /\ sink' = Append(sink, save_block_to_file(new_block, heap[new_block.transactions]))
    /\ outcome' = "ok"
    /\ pc' = "idle"
    /\ UNCHANGED <<chain, heap, pending, difficulty, new_block,
                   mining_reward_address, submitted, tampers, probe,
                   lock, calls>>

\* mine_pending_transactions, line 80: open() or write() raises, the call
\* ends with the exception
MineSaveFail ==
    /\ pc = "save"
    /\ sink' = Append(sink, save_block_to_file(new_block, heap[new_block.transactions]))
    /\ outcome' = "error"
    /\ pc' = "idle"
    /\ UNCHANGED <<chain, heap, pending, difficulty, new_block,
                   mining_reward_address, submitted, tampers, probe,
                   lock, calls>>

Next ==
    \/ \E tx \in Txs : create_transaction(tx)
    \/ \E address \in RewardAddresses : MineBegin(address)
    \/ MineIter
    \/ MineReturn
    \/ MineAppend
    \/ MineClear
    \/ MineSaveOk
    \/ MineSaveFail

Spec == Init /\ [][Next]_vars

----------------------------------------------------------------------------
(* Block.mine_block on its own, on a block constructed with any arguments *)

\* the hash arguments Block(...) is given: none, or a digest-shaped string
SuppliedHashes == {NoHash, Zeros(HashLen), HexStr(15, HashLen), HexStr(171, HashLen)}

\* b = Block(1, now, txs, <hash of the genesis block>, nonce, hash), heap[3]
\* being the list txs, at the call b.mine_block(d); probe keeps the block and
\* the list as they are on entry
MineInit ==
    \E txs \in {<<>>, <<Transaction(AddrA, AddrB, 10)>>, <<reward_tx(AddrA)>>},
       nonce \in {0, 7, 16},
       hash \in SuppliedHashes, d \in 0..MaxDifficulty :
        /\ heap = << <<>>, <<>>, txs >>
        /\ chain = <<create_genesis_block>>
        /\ difficulty = d
        /\ pending = 2
        /\ new_block = Block(1, Now(1), 3, txs, create_genesis_block.hash, nonce, hash)
        /\ mining_reward_address = <<>>
        /\ pc = "mine"
        /\ outcome = "none"
        /\ sink = <<>>
        /\ submitted = <<>>
        /\ tampers = 0
        /\ probe = [kind |-> "mine", entry |-> new_block, txs |-> txs]
        /\ OneCaller

SpecMine == MineInit /\ [][MineIter \/ MineReturn]_vars

----------------------------------------------------------------------------
(* The string calculate_hash hashes, on two blocks of any content *)

\* the field values of the blocks compared
BlockContents ==
    [index : {1, 11},
     previous_hash : {<<"a">>, <<"1", "a">>},
     timestamp : {Now(0)},
     txs : {<<>>, <<Transaction(AddrA, AddrB, 10)>>},
     nonce : {0, 1}]

\* line 22-23 on the fields f of a block
SerializeFields(f) == Serialize(f.index, f.previous_hash, f.timestamp, f.txs, f.nonce)

SerInit ==
    /\ LedgerInit(0)
    /\ OneCaller
    /\ \E a \in BlockContents, b \in BlockContents :
        probe = [kind |-> "serialize", a |-> a, b |-> b,
                 sa |-> <<>>, sb |-> <<>>, done |-> FALSE]

\* both blocks are serialized as calculate_hash does
SerializeBoth ==
    /\ probe.kind = "serialize"
    /\ ~probe.done
    /\ probe' = [probe EXCEPT !.sa = SerializeFields(probe.a),
                              !.sb = SerializeFields(probe.b),
                              !.done = TRUE]
    /\ UNCHANGED <<chain, heap, pending, difficulty, new_block, mining_reward_address,
                   pc, outcome, sink, submitted, tampers, lock, calls>>

SpecSer == SerInit /\ [][SerializeBoth]_vars

----------------------------------------------------------------------------
(* Queries *)

\* the sender test done as the only test of a transaction (if / elif)
balance_after_elif(t, address, balance) ==
    IF t.sender = address THEN balance - t.amount
    ELSE IF t.recipient = address THEN balance + t.amount
    ELSE balance

\* a transaction that is only credited to its recipient, never debited
balance_after_credit_only(t, address, balance) ==
    IF t.recipient = address THEN balance + t.amount ELSE balance

\* a credit that is made for positive amounts only
balance_after_credit_positive(t, address, balance) ==
    LET debited == IF t.sender = address THEN balance - t.amount ELSE balance
    IN  IF t.recipient = address /\ t.amount > 0 THEN debited + t.amount ELSE debited

\* the two if statements of lines 89-92 on one transaction
balance_after(t, address, balance) ==
    LET debited == IF t.sender = address THEN balance - t.amount ELSE balance
    IN  IF t.recipient = address THEN debited + t.amount ELSE debited

RECURSIVE BalanceOverTxs(_, _, _)
\* the inner loop of get_balance_of_address
BalanceOverTxs(txs, address, balance) ==
    IF txs = <<>> THEN balance
    ELSE BalanceOverTxs(Tail(txs), address, balance_after(Head(txs), address, balance))

RECURSIVE BalanceOverBlocks(_, _, _, _, _)
\* the outer loop of get_balance_of_address, from block i on
BalanceOverBlocks(c, h, i, address, balance) ==
    IF i > Len(c) THEN balance
    ELSE BalanceOverBlocks(c, h, i + 1, address,
                           BalanceOverTxs(h[c[i].transactions], address, balance))

\* Blockchain.get_balance_of_address on chain c over heap h
get_balance_of_address(c, h, address) == BalanceOverBlocks(c, h, 1, address, 0)

\* a hash test that also asks for the proof of work
hash_mismatch_or_unmined(b, txs) ==
    \/ b.hash # calculate_hash(b, txs)
    \/ ~StartsWith(b.hash, Zeros(difficulty))

\* a hash test that never fires
hash_mismatch_never(b, txs) == FALSE

\* line 100: current_block.hash != current_block.calculate_hash()
hash_mismatch(b, txs) == b.hash # calculate_hash(b, txs)

\* line 103: current_block.previous_hash != previous_block.hash
link_mismatch(current_block, previous_block) ==
    current_block.previous_hash # previous_block.hash

RECURSIVE ValidFrom(_, _, _)
\* the loop of is_chain_valid from Python index i - 1 on
ValidFrom(c, h, i) ==
    IF i > Len(c) THEN TRUE
    ELSE IF hash_mismatch(c[i], h[c[i].transactions]) THEN FALSE
    ELSE IF link_mismatch(c[i], c[i - 1]) THEN FALSE
    ELSE ValidFrom(c, h, i + 1)

\* Blockchain.is_chain_valid on chain c over heap h: range(1, len(chain))
is_chain_valid(c, h) == ValidFrom(c, h, 2)

----------------------------------------------------------------------------
(* Writes to the public attributes of stored blocks by code outside the ledger *)

\* the strings an outside write stores as hash, previous_hash or timestamp
ForgedStrings(c) ==
    {Zeros(HashLen), HexStr(171, HashLen), c[1].hash, get_latest_block(c).hash}

\* the values an outside write can give to a field of block b
ForgedValues(c, b, field) ==
    IF field \in {"index", "nonce"} THEN {b[field] + 1}
    ELSE ForgedStrings(c) \ {b[field]}

\* chain[i].<field> = v, written from outside between two ledger calls
Tamper(i, field, v) ==
    /\ pc = "idle"
    /\ tampers < MaxTampers
    /\ chain' = [chain EXCEPT ![i][field] = v]
    /\ tampers' = tampers + 1
    /\ UNCHANGED <<heap, pending, difficulty, new_block, mining_reward_address,
                   pc, outcome, sink, submitted, probe, lock, calls>>

\* chain[i].transactions.append(tx), written from outside between two ledger calls
TamperTransactions(i, tx) ==
    /\ pc = "idle"
    /\ tampers < MaxTampers
    /\ heap' = [heap EXCEPT ![chain[i].transactions] = Append(@, tx)]
    /\ tampers' = tampers + 1
    /\ UNCHANGED <<chain, pending, difficulty, new_block, mining_reward_address,
                   pc, outcome, sink, submitted, probe, lock, calls>>

NextTamper ==
    \/ Next
    \/ \E i \in 1..Len(chain),
          field \in {"index", "timestamp", "previous_hash", "nonce", "hash"} :
            \E v \in ForgedValues(chain, chain[i], field) : Tamper(i, field, v)
    \/ \E i \in 1..Len(chain), tx \in Txs : TamperTransactions(i, tx)

SpecTamper == Init /\ [][NextTamper]_vars

----------------------------------------------------------------------------
(* A stored block altered from outside, and the hashes recomputed without
   mining *)

RECURSIVE Rehashed(_, _, _)
\* for b in chain[i - 1:]: b.previous_hash = <hash of the block before it>;
\* b.hash = b.calculate_hash(), the first block keeping its previous_hash
Rehashed(c, h, i) ==
    IF i > Len(c) THEN c
    ELSE Rehashed(
             [c EXCEPT ![i] =
                 CHOOSE b \in {[l EXCEPT !.hash = calculate_hash(l, h[l.transactions])] :
                               l \in {IF i = 1 THEN c[i]
                                      ELSE [c[i] EXCEPT !.previous_hash = c[i - 1].hash]}} : TRUE],
             h, i + 1)

\* chain[i].transactions.append(tx), then the hashes from block i on recomputed
\* with calculate_hash and the links restored, mine_block not being called;
\* done once, between two ledger calls
Forge(i, tx) ==
    /\ pc = "idle"
    /\ tampers = 0
    /\ heap' = [heap EXCEPT ![chain[i].transactions] = Append(@, tx)]
    /\ chain' = Rehashed(chain, heap', i)
    /\ tampers' = tampers + 1
    /\ UNCHANGED <<pending, difficulty, new_block, mining_reward_address,
                   pc, outcome, sink, submitted, probe, lock, calls>>

NextForge ==
    \/ Next
    \/ \E i \in 1..Len(chain) : Forge(i, Transaction(AddrA, AddrB, 10))

\* a ledger of positive difficulty
ForgeInit ==
    /\ \E d \in 1..MaxDifficulty : LedgerInit(d)
    /\ probe = NoProbe
    /\ OneCaller

SpecForge == ForgeInit /\ [][NextForge]_vars

----------------------------------------------------------------------------
(* Two threads calling one Blockchain, a statement of a call being one step;
   with or without a lock held for the whole of each call *)

\* the threads
Callers == {1, 2}

\* a thread that is in no call
NoCall == [pc |-> "idle", new_block |-> NoBlock, mining_reward_address |-> <<>>]

\* a Blockchain shared by the threads, which all use a lock or all use none
ThreadsInit ==
    /\ \E d \in 0..MaxDifficulty : LedgerInit(d)
    /\ probe = NoProbe
    /\ lock \in [used : BOOLEAN, holder : {0}]
    /\ calls = [t \in Callers |-> NoCall]

\* thread t may start a call: it acquires the lock, where there is one
CanEnter(t) ==
    /\ calls[t].pc = "idle"
    /\ lock.holder = 0

\* the lock once thread t has acquired it
Acquired(t) == IF lock.used THEN [lock EXCEPT !.holder = t] ELSE lock

\* the lock once its holder has released it
Released == [lock EXCEPT !.holder = 0]

\* the calls of mine_pending_transactions that have not appended their block
Unappended == {t \in Callers : calls[t].pc \in {"construct", "mine", "append"}}

\* the calls started so far
CallsStarted == Len(submitted) + (Len(chain) - 1) + Cardinality(Unappended)

\* Blockchain.create_transaction called by thread t: its one statement
ThreadCreateTransaction(t, tx) ==
    /\ CanEnter(t)
    /\ CallsStarted < MaxCalls
    /\ heap' = [heap EXCEPT ![pending] = Append(@, tx)]
    /\ submitted' = Append(submitted, tx)
    /\ UNCHANGED <<chain, pending, difficulty, new_block, mining_reward_address,
                   pc, outcome, sink, tampers, probe, lock, calls>>

\* mine_pending_transactions called by thread t, lines 70-71: the reward is
\* appended to the pending list
ThreadReward(t, address) ==
    /\ CanEnter(t)
    /\ CallsStarted < MaxCalls
    /\ heap' = [heap EXCEPT ![pending] = Append(@, reward_tx(address))]
    /\ calls' = [calls EXCEPT ![t] = [NoCall EXCEPT !.pc = "construct",
                                                    !.mining_reward_address = address]]
    /\ lock' = Acquired(t)
    /\ UNCHANGED <<chain, pending, difficulty, new_block, mining_reward_address,
                   pc, outcome, sink, submitted, tampers, probe>>

\* line 73: the candidate block is constructed over the pending list
ThreadConstruct(t) ==
    /\ calls[t].pc = "construct"
    /\ calls' = [calls EXCEPT ![t].new_block = candidate_block(chain, pending, heap[pending]),
                              ![t].pc = "mine"]
    /\ UNCHANGED <<chain, heap, pending, difficulty, new_block, mining_reward_address,
                   pc, outcome, sink, submitted, tampers, probe, lock>>

RECURSIVE mine_block(_, _, _)
\* Block.mine_block with the nonces up to MaxNonce: the block when the loop
\* ends, or at the last nonce tried
mine_block(b, txs, d) ==
    IF mine_done(b, d) \/ b.nonce >= MaxNonce THEN b
    ELSE mine_block(mine_step(b, txs), txs, d)

\* line 74: mine_block runs and returns
ThreadMine(t) ==
    /\ calls[t].pc = "mine"
    /\ \E b \in {mine_block(calls[t].new_block,
                            heap[calls[t].new_block.transactions], difficulty)} :
           /\ mine_done(b, difficulty)
           /\ calls' = [calls EXCEPT ![t].new_block = b, ![t].pc = "append"]
    /\ UNCHANGED <<chain, heap, pending, difficulty, new_block, mining_reward_address,
                   pc, outcome, sink, submitted, tampers, probe, lock>>

\* line 76
ThreadAppend(t) ==
    /\ calls[t].pc = "append"
    /\ chain' = Append(chain, calls[t].new_block)
    /\ calls' = [calls EXCEPT ![t].pc = "clear"]
    /\ UNCHANGED <<heap, pending, difficulty, new_block, mining_reward_address,
                   pc, outcome, sink, submitted, tampers, probe, lock>>

\* a line 77 that empties the list in place
ThreadClear_inplace(t) ==
    /\ calls[t].pc = "clear"
    /\ heap' = [heap EXCEPT ![pending] = <<>>]
    /\ calls' = [calls EXCEPT ![t].pc = "save"]
    /\ UNCHANGED <<chain, pending, difficulty, new_block, mining_reward_address,
                   pc, outcome, sink, submitted, tampers, probe, lock>>

\* line 77: pending_transactions is bound to a new list
ThreadClear(t) ==
    /\ calls[t].pc = "clear"
    /\ heap' = Append(heap, <<>>)
    /\ pending' = Len(heap) + 1
    /\ calls' = [calls EXCEPT ![t].pc = "save"]
    /\ UNCHANGED <<chain, difficulty, new_block, mining_reward_address,
                   pc, outcome, sink, submitted, tampers, probe, lock>>

\* lines 79-80: the block is logged and written, or the write raises; the call
\* ends and the lock, where there is one, is released
ThreadSave(t) ==
    /\ calls[t].pc = "save"
    /\ sink' = Append(sink, save_block_to_file(calls[t].new_block,
                                               heap[calls[t].new_block.transactions]))
    /\ calls' = [calls EXCEPT ![t].pc = "idle"]
    /\ lock' = Released
    /\ UNCHANGED <<chain, heap, pending, difficulty, new_block, mining_reward_address,
                   pc, outcome, submitted, tampers, probe>>

NextThreads ==
    \E t \in Callers :
        \/ ThreadCreateTransaction(t, Transaction(AddrA, AddrB, 10))
        \/ ThreadReward(t, AddrA)
        \/ ThreadConstruct(t)
        \/ ThreadMine(t)
        \/ ThreadAppend(t)
        \/ ThreadClear(t)
        \/ ThreadSave(t)

SpecThreads == ThreadsInit /\ [][NextThreads]_vars

----------------------------------------------------------------------------
(* The ledger as a running program: a call that has started executes its
   next statement *)

\* Blockchain(difficulty): the greatest difficulty of Init, and one that is
\* longer than a digest, which hash[:difficulty] can never equal
LiveInit ==
    /\ \E d \in {MaxDifficulty, HashLen + 1} : LedgerInit(d)
    /\ probe = NoProbe
    /\ OneCaller

\* the next statement of the running call of mine_pending_transactions
CallStep ==
    \/ MineIter
    \/ MineReturn
    \/ MineAppend
    \/ MineClear
    \/ MineSaveOk
    \/ MineSaveFail

\* the interpreter runs the statements of mine_pending_transactions in
\* sequence: none of them waits for anything
CallRuns == WF_vars(CallStep)

SpecLive == LiveInit /\ [][Next]_vars /\ CallRuns

----------------------------------------------------------------------------
(* The module-level usage example, lines 139-148 *)

Sender == <<"S", "e", "n", "d", "e", "r">>
Recipient == <<"R", "e", "c", "i", "p", "i", "e", "n", "t">>
Miner == <<"M", "i", "n", "e", "r">>

\* line 139: blockchain = Blockchain(), the difficulty being one of Init or one
\* that is longer than a digest
UsageInit ==
    /\ \E d \in (0..MaxDifficulty) \cup {HashLen + 1} : LedgerInit(d)
    /\ probe = NoProbe
    /\ OneCaller

\* line 141: the condition of the while statement
WhileCondition == TRUE

\* the script is at line 141: no call is running, none has raised, and the
\* round before, if any, is complete
AtLoopTest ==
    /\ pc = "idle"
    /\ outcome # "error"
    /\ heap[pending] = <<>>

\* the script is at line 143
AtMineCall ==
    /\ pc = "idle"
    /\ outcome # "error"
    /\ heap[pending] # <<>>

\* lines 141-142: the condition holds and the body is entered
UsageSubmit ==
    /\ AtLoopTest
    /\ WhileCondition
    /\ create_transaction(Transaction(Sender, Recipient, 10))

\* line 143: the call of mine_pending_transactions begins
UsageMine ==
    /\ AtMineCall
    /\ MineBegin(Miner)

\* the statements of the running call; an exception of line 80 ends the script
NextUsage ==
    \/ UsageSubmit
    \/ UsageMine
    \/ MineIter
    \/ MineReturn
    \/ MineAppend
    \/ MineClear
    \/ MineSaveOk
    \/ MineSaveFail

SpecUsage == UsageInit /\ [][NextUsage]_vars

----------------------------------------------------------------------------
(* Claims *)

\* the content of the transaction list of block i of the chain
TxsOf(i) == heap[chain[i].transactions]

\* C1: chain linkage. In every state reached by create_transaction and
\* mine_pending_transactions calls the first block has index 0, and every later
\* block has the index of its position and the hash of the block before it as
\* its previous_hash.
C1_ChainLinkage ==
    /\ chain[1].index = 0
    /\ \A i \in 2..Len(chain) :
        /\ chain[i].previous_hash = chain[i - 1].hash
        /\ chain[i].index = i - 1

\* two blocks have been mined and appended
C1_Witness == Len(chain) = 3 /\ pc = "idle"

\* C2: mining correctness. When mine_block(d) returns, the hash of the block
\* starts with d characters '0' and is calculate_hash() of the block's final
\* fields, whatever arguments the block was constructed with.
C2_MiningCorrect ==
    pc = "mined" =>
        /\ StartsWith(new_block.hash, Zeros(difficulty))
        /\ new_block.hash = calculate_hash(new_block, heap[new_block.transactions])

\* block i of the chain with its stored hash replaced by v
WithHash(i, v) == [chain EXCEPT ![i].hash = v]

\* block i of the chain with its stored previous_hash replaced by v
WithPreviousHash(i, v) == [chain EXCEPT ![i].previous_hash = v]

\* C3: validity detection. is_chain_valid(), called between calls of
\* create_transaction and mine_pending_transactions, is True in every state
\* reached by such calls alone, and False for
\* the same chain with the stored hash or the stored previous_hash of one
\* non-genesis block changed to another value.
C3_ValidityDetection ==
    pc = "idle" =>
        /\ is_chain_valid(chain, heap)
        /\ \A i \in 2..Len(chain) : \A v \in ForgedStrings(chain) :
            /\ v # chain[i].hash => ~is_chain_valid(WithHash(i, v), heap)
            /\ v # chain[i].previous_hash => ~is_chain_valid(WithPreviousHash(i, v), heap)

\* a chain of two mined blocks whose last block can be given another hash and
\* whose middle block another previous_hash
C3_Witness ==
    /\ Len(chain) = 3
    /\ pc = "idle"
    /\ Zeros(HashLen) # chain[3].hash
    /\ Zeros(HashLen) # chain[2].previous_hash

\* C4: soundness of validation, the genesis block included. Whenever
\* is_chain_valid() is True, every block of the chain has its stored hash equal
\* to calculate_hash() of its fields and every non-genesis block has the stored
\* hash of its predecessor as previous_hash.
C4_ValidMeansConsistent ==
    is_chain_valid(chain, heap) =>
        \A i \in 1..Len(chain) :
            /\ chain[i].hash = calculate_hash(chain[i], TxsOf(i))
            /\ i >= 2 => chain[i].previous_hash = chain[i - 1].hash

\* a transaction list without its last element
Front(txs) == SubSeq(txs, 1, Len(txs) - 1)

RECURSIVE IncludedFrom(_, _, _)
\* the transactions of blocks i.. of chain c over heap h, the last one of each
\* block left out, in chain order
IncludedFrom(c, h, i) ==
    IF i > Len(c) THEN <<>>
    ELSE Front(h[c[i].transactions]) \o IncludedFrom(c, h, i + 1)

\* the step with which a mine_pending_transactions call ends
MineEnds == pc = "save" /\ pc' = "idle"

C5_Step ==
    /\ pc' = "idle" =>
        IncludedFrom(chain', heap', 2) \o heap'[pending'] = submitted'
    /\ MineEnds =>
        LET earlier == Len(IncludedFrom(chain, heap, 2)) - Len(Front(heap[new_block.transactions]))
        IN  /\ heap'[pending'] = <<>>
            /\ get_latest_block(chain') = new_block
            /\ heap'[get_latest_block(chain').transactions] =
                   SubSeq(submitted', earlier + 1, Len(submitted'))
                       \o <<reward_tx(mining_reward_address')>>

\* C5: pending-buffer lifecycle. When a mine_pending_transactions(addr) call
\* ends, pending_transactions is empty and the transactions of the appended
\* block are the transactions submitted since the round before, in submission
\* order, followed by the one reward transaction ("System", addr,
\* mining_reward); between calls the submitted transactions are, in order, the
\* non-reward transactions of the blocks followed by the pending ones, so each
\* is in exactly one place.
C5_PendingLifecycle == [][C5_Step]_vars

\* a first round that took two different submitted transactions and a second
\* round without submissions have ended
C5_Witness ==
    /\ pc = "idle"
    /\ Len(chain) = 3
    /\ Len(TxsOf(2)) = 3
    /\ TxsOf(2)[1] # TxsOf(2)[2]
    /\ TxsOf(3) = <<reward_tx(mining_reward_address)>>
    /\ heap[pending] = <<>>

\* C6: a failure of the block sink does not lose the batch. When
\* save_block_to_file fails within mine_pending_transactions, the call ends
\* with pending_transactions still holding the batch of the round.
C6_SinkFailureKeepsBatch ==
    [][(MineEnds /\ outcome' = "error") =>
            heap'[pending'] = heap[new_block.transactions]]_vars

\* C7: unambiguous hash serialization. Two blocks that differ in index,
\* previous_hash, timestamp, nonce or the list of transactions are serialized
\* by calculate_hash to different strings.
C7_SerializationInjective ==
    (probe.kind = "serialize" /\ probe.done /\ probe.a # probe.b) =>
        probe.sa # probe.sb

\* the addresses that occur in the model
Addresses == {AddrA, AddrB, System}

\* no transaction was submitted and every mined block rewards address
RewardOnlyChain(address) ==
    /\ submitted = <<>>
    /\ \A i \in 2..Len(chain) : TxsOf(i) = <<reward_tx(address)>>

\* the balances the claim states after n = Len(chain) - 1 rounds for address
RewardBalances(address) ==
    /\ get_balance_of_address(chain, heap, address) = mining_reward * (Len(chain) - 1)
    /\ get_balance_of_address(chain, heap, System) = (0 - mining_reward) * (Len(chain) - 1)

\* C8 as stated: for every address A, after n calls mine_pending_transactions(A)
\* and no create_transaction call, the balance of A is mining_reward * n and
\* the balance of "System" is -mining_reward * n.
C8_RewardOnlyBalances ==
    \A address \in RewardAddresses :
        (pc = "idle" /\ RewardOnlyChain(address)) => RewardBalances(address)

\* C8 as amended: the same for every address A other than "System".
C8_RewardOnlyBalancesAmended ==
    \A address \in RewardAddresses \ {System} :
        (pc = "idle" /\ RewardOnlyChain(address)) => RewardBalances(address)

\* two rounds mined for "A" and nothing submitted
C8_Witness ==
    /\ pc = "idle"
    /\ Len(chain) = 3
    /\ RewardOnlyChain(AddrA)

RECURSIVE ChainTxsFrom(_)
\* the transactions of blocks i.. of the chain, in chain order
ChainTxsFrom(i) == IF i > Len(chain) THEN <<>> ELSE TxsOf(i) \o ChainTxsFrom(i + 1)

RECURSIVE SumAmounts(_)
SumAmounts(txs) == IF txs = <<>> THEN 0 ELSE Head(txs).amount + SumAmounts(Tail(txs))

\* the sum of the amounts the chain's transactions send to address
Received(address) ==
    SumAmounts(SelectSeq(ChainTxsFrom(1), LAMBDA t : t.recipient = address))

\* the sum of the amounts the chain's transactions send from address
Sent(address) ==
    SumAmounts(SelectSeq(ChainTxsFrom(1), LAMBDA t : t.sender = address))

\* C9: balance derivation. For every address, get_balance_of_address is the sum
\* of the amounts of the chain's transactions to the address minus the sum of
\* the amounts of those from it; a transaction from an address to itself and
\* the transactions still pending contribute nothing.
C9_BalanceDerivation ==
    \A address \in Addresses :
        get_balance_of_address(chain, heap, address) = Received(address) - Sent(address)

\* a chain with a transaction from "System" to itself, and a transaction pending
C9_Witness ==
    /\ pc = "idle"
    /\ \E i \in 2..Len(chain) : \E k \in 1..Len(TxsOf(i)) :
        TxsOf(i)[k].sender = System /\ TxsOf(i)[k].recipient = System
    /\ heap[pending] # <<>>

\* C10: block sink protocol. save_block_to_file is called once in each
\* mine_pending_transactions call, with the block just mined and after that
\* block was appended: the k-th call has the record of the k-th non-genesis
\* block of the chain, no call is outstanding between calls or while mining, and
\* exactly one is from the append to the end of the call; the genesis block is
\* never emitted.
C10_SinkProtocol ==
    /\ \A k \in 1..Len(sink) :
        /\ k + 1 <= Len(chain)
        /\ sink[k].record = to_dict(chain[k + 1], TxsOf(k + 1))
    /\ pc \in {"idle", "mine", "mined"} => Len(sink) = Len(chain) - 1
    /\ pc \in {"clear", "save"} => Len(sink) = Len(chain) - 2

\* two calls have ended, each with its block emitted
C10_Witness ==
    /\ pc = "idle"
    /\ Len(sink) = 2
    /\ sink[2].record.index = 2

\* the genesis block as Blockchain() leaves it: index 0, no transactions, the
\* sentinel "0" as previous_hash, nonce 0 and the hash of these fields
GenesisShape ==
    /\ Len(chain) >= 1
    /\ chain[1].index = 0
    /\ TxsOf(1) = <<>>
    /\ chain[1].previous_hash = <<"0">>
    /\ chain[1].nonce = 0
    /\ chain[1].hash = calculate_hash(chain[1], <<>>)

\* C11: genesis block. After construction the chain is the genesis block
\* alone: index 0, no transactions, previous_hash "0", nonce 0 and
\* hash == calculate_hash(), whatever the difficulty; in every later state the
\* chain is non-empty and its first block is that block, unchanged.
C11_GenesisBlock ==
    /\ Len(chain) = 1 /\ GenesisShape
    /\ [][/\ GenesisShape'
          /\ chain'[1] = chain[1]
          /\ heap'[chain'[1].transactions] = heap[chain[1].transactions]]_vars

\* two blocks were mined at difficulty 1 on a genesis block whose hash does not
\* meet that difficulty
C11_Witness ==
    /\ pc = "idle"
    /\ Len(chain) = 3
    /\ difficulty = 1
    /\ ~StartsWith(chain[1].hash, Zeros(difficulty))

\* the blocks already in the chain keep every field and the content of their
\* transaction lists over a step
BlocksKept ==
    \A i \in 1..Len(chain) :
        /\ chain'[i] = chain[i]
        /\ heap'[chain'[i].transactions] = heap[chain[i].transactions]

\* C12: append-only chain. A call of mine_pending_transactions extends the
\* chain by exactly one block, at the end, and no step of any operation changes
\* a block already in the chain or the content of its transaction list; outside
\* the append of line 76 the chain is left as it is, so a transaction submitted
\* after a block was appended never shows up in that block.
C12_AppendOnly ==
    [][/\ BlocksKept
       /\ IF pc = "mined"
            THEN chain' = Append(chain, new_block)
            ELSE chain' = chain
       /\ (pc = "idle" /\ pc' = "mine") => new_block'.index = Len(chain)
       /\ (pc = "save" /\ pc' = "idle") => Len(chain') = new_block.index + 1]_vars

\* a transaction was submitted after a block was appended: it is in the pending
\* list and the block's list is another list
C12_Witness ==
    /\ pc = "idle"
    /\ Len(chain) >= 2
    /\ heap[pending] # <<>>
    /\ \A i \in 1..Len(chain) : chain[i].transactions # pending

\* C13: proof-of-work of chained blocks. With the difficulty fixed at
\* construction, every non-genesis block of the chain has a stored hash that
\* starts with at least difficulty characters '0' and equals calculate_hash()
\* of the block.
C13_ChainedProofOfWork ==
    \A i \in 2..Len(chain) :
        /\ StartsWith(chain[i].hash, Zeros(difficulty))
        /\ chain[i].hash = calculate_hash(chain[i], TxsOf(i))

\* at difficulty 1 two blocks are in the chain after a search that had to
\* increment the nonce
C13_Witness ==
    /\ difficulty = 1
    /\ Len(chain) = 3
    /\ chain[2].nonce > 0
    /\ chain[3].nonce > 0
    /\ pc = "idle"

\* the digest of the block mine_block was entered with, its nonce being n
EntryDigest(n) == calculate_hash([probe.entry EXCEPT !.nonce = n], probe.txs)

\* C14: nonce search. For a block whose stored hash is consistent on entry,
\* mine_block(d) changes only nonce and hash, and on return the nonce is the
\* smallest n >= the entry nonce whose digest starts with d characters '0': the
\* entry nonce itself when its digest already does.
C14_NonceSearch ==
    (/\ probe.kind = "mine"
     /\ pc = "mined"
     /\ probe.entry.hash = EntryDigest(probe.entry.nonce)) =>
        /\ [new_block EXCEPT !.nonce = probe.entry.nonce,
                             !.hash = probe.entry.hash] = probe.entry
        /\ heap[new_block.transactions] = probe.txs
        /\ difficulty \in 0..MaxDifficulty
        /\ new_block.nonce >= probe.entry.nonce
        /\ new_block.hash = EntryDigest(new_block.nonce)
        /\ StartsWith(EntryDigest(new_block.nonce), Zeros(difficulty))
        /\ \A n \in probe.entry.nonce..(new_block.nonce - 1) :
               ~StartsWith(EntryDigest(n), Zeros(difficulty))

\* mine_block returned on a block that was consistent on entry, after more
\* than one increment of the nonce
C14_Witness ==
    /\ probe.kind = "mine"
    /\ pc = "mined"
    /\ probe.entry.hash = EntryDigest(probe.entry.nonce)
    /\ new_block.nonce > probe.entry.nonce + 1

\* mine_block returned at once on a block whose entry digest meets the
\* difficulty
C14_WitnessAtOnce ==
    /\ probe.kind = "mine"
    /\ pc = "mined"
    /\ difficulty = 1
    /\ probe.entry.hash = EntryDigest(probe.entry.nonce)
    /\ new_block = probe.entry

\* some nonce from the block's on, within the nonces searched, gives a digest
\* that starts with d characters '0'
Solvable(b, txs, d) ==
    \E n \in b.nonce..MaxNonce :
        StartsWith(calculate_hash([b EXCEPT !.nonce = n], txs), Zeros(d))

\* mine_block has been entered, with a nonce to find
Searching ==
    /\ pc = "mine"
    /\ new_block.nonce = 0
    /\ Solvable(new_block, heap[new_block.transactions], difficulty)

\* a step by which mine_block returns or the chain is modified during the search
SearchLeft ==
    /\ pc = "mine"
    /\ (pc' # "mine" \/ chain' # chain)

\* the step that ends a call of mine_pending_transactions leaves the chain one
\* block longer than the call found it, and the pending list empty
CallEndsGrown ==
    (pc = "save" /\ pc' = "idle") =>
        /\ Len(chain') = new_block.index + 1
        /\ heap'[pending'] = <<>>

\* C15: termination of mining. When some nonce >= the entry nonce gives a
\* digest with difficulty leading zeros, mine_block returns and the call of
\* mine_pending_transactions ends with the chain one block longer and the
\* pending list empty; when none does, mine_block never returns and the call
\* never modifies the chain.
C15_MiningTermination ==
    /\ Searching ~> (pc = "idle")
    /\ [][CallEndsGrown]_vars
    /\ [][SearchLeft => Solvable(new_block, heap[new_block.transactions], difficulty)]_vars

\* a second call has ended after a search that incremented the nonce
C15_Witness ==
    /\ pc = "idle"
    /\ outcome = "ok"
    /\ difficulty = 1
    /\ Len(chain) = 3
    /\ chain[3].nonce > 0

\* the search without end: the difficulty is longer than a digest
C15_WitnessNoNonce ==
    /\ pc = "mine"
    /\ difficulty > HashLen
    /\ new_block.nonce = MaxNonce

\* every non-genesis block of the chain has hash == calculate_hash() and the
\* hash of the block before it as previous_hash
ConsistentAndLinked ==
    \A i \in 2..Len(chain) :
        /\ chain[i].hash = calculate_hash(chain[i], TxsOf(i))
        /\ chain[i].previous_hash = chain[i - 1].hash

\* C16: validity ignores the proof of work. is_chain_valid() reports as valid
\* every chain whose non-genesis blocks have hash == calculate_hash() and
\* previous_hash equal to the hash of the block before, also when a stored hash
\* has fewer than difficulty leading zeros, as after a block was altered and
\* the hashes recomputed without mining.
C16_ValidityIgnoresDifficulty ==
    (pc = "idle" /\ ConsistentAndLinked) => is_chain_valid(chain, heap)

\* a block was altered and the hashes recomputed: the chain is consistent and
\* linked, and the hash of a non-genesis block does not meet the difficulty
C16_Witness ==
    /\ pc = "idle"
    /\ tampers > 0
    /\ ConsistentAndLinked
    /\ is_chain_valid(chain, heap)
    /\ \E i \in 2..Len(chain) : ~StartsWith(chain[i].hash, Zeros(difficulty))

\* the lists a block of the chain, the ledger or a running call refers to
LiveLists ==
    {pending} \cup {chain[i].transactions : i \in 1..Len(chain)}
              \cup {calls[t].new_block.transactions :
                        t \in {u \in DOMAIN calls : calls[u].pc \in {"mine", "append"}}}

\* the transactions of txs that are not rewards
RECURSIVE NonRewards(_)
NonRewards(txs) ==
    IF txs = <<>> THEN <<>>
    ELSE IF Head(txs).amount = mining_reward THEN NonRewards(Tail(txs))
    ELSE <<Head(txs)>> \o NonRewards(Tail(txs))

RECURSIVE CountIn(_)
\* how many submitted transactions the lists of refs hold
CountIn(refs) ==
    IF refs = {} THEN 0
    ELSE LET r == CHOOSE x \in refs : TRUE
         IN  Len(NonRewards(heap[r])) + CountIn(refs \ {r})

\* a submitted transaction is in no list that a block, the ledger or a running
\* call refers to
TransactionLost == CountIn(LiveLists) < Len(submitted)

\* a block of the chain is not linked to the block before it, or its stored
\* hash is not the hash of its content: its list holds a transaction it was
\* not hashed with
ChainBroken ==
    \E i \in 2..Len(chain) :
        \/ chain[i].index # i - 1
        \/ chain[i].previous_hash # chain[i - 1].hash
        \/ chain[i].hash # calculate_hash(chain[i], TxsOf(i))

\* C17: external mutual exclusion. With a lock held for the whole of each
\* call, two threads calling create_transaction and mine_pending_transactions
\* reach no state in which the chain is not linked or hash-consistent or a
\* submitted transaction is lost; without a lock, interleaved statement by
\* statement, they reach such states.
C17_LockedCallsAreSafe ==
    lock.used => (~ChainBroken /\ ~TransactionLost)

\* without a lock: both threads are back from their calls, the chain is broken
\* and a submitted transaction is lost
C17_Witness ==
    /\ ~lock.used
    /\ \A t \in Callers : calls[t].pc = "idle"
    /\ ChainBroken
    /\ TransactionLost

\* C18: bounded usage driver. The module-level loop submits a transaction and
\* mines a block a fixed number of times (UsageRounds here) and then stops: no
\* round is begun once that many are complete.
C18_UsageLoopBounded ==
    [][(AtLoopTest /\ Len(chain) - 1 >= UsageRounds) => submitted' = submitted]_vars

\* the addresses that are sender or recipient of a transaction of the chain
ChainAddresses ==
    UNION {UNION {{TxsOf(i)[k].sender, TxsOf(i)[k].recipient} : k \in 1..Len(TxsOf(i))} :
               i \in 1..Len(chain)}

RECURSIVE SumBalances(_)
\* the sum of get_balance_of_address over the addresses of as
SumBalances(as) ==
    IF as = {} THEN 0
    ELSE LET a == CHOOSE x \in as : TRUE
         IN  get_balance_of_address(chain, heap, a) + SumBalances(as \ {a})

\* C19: zero-sum ledger. In every reachable state, whatever the senders,
\* recipients and amounts of the submitted transactions (negative amounts and
\* the sender "System" among them), the balances of the addresses that occur in
\* the chain add up to 0: the mining reward is offset by the balance of "System".
C19_ZeroSum == SumBalances(ChainAddresses) = 0

\* the chain holds rewards and a submitted transaction from "System" with a
\* negative amount, and three addresses have a balance
C19_Witness ==
    /\ pc = "idle"
    /\ Len(chain) = 3
    /\ Cardinality(ChainAddresses) = 3
    /\ \E i \in 2..Len(chain) : \E k \in 1..Len(TxsOf(i)) :
           TxsOf(i)[k].sender = System /\ TxsOf(i)[k].amount < 0
    /\ get_balance_of_address(chain, heap, System) # 0

====
